---------------------------- MODULE Spec2Model ----------------------------
(***************************************************************************)
(* x-cyber-bot: the content generator (content/generator.py), the backlog  *)
(* collaborator (sources/collector.py), the post store (database/db.py)    *)
(* and the publish scheduler (content/scheduler.py).                       *)
(*                                                                         *)
(* Time is counted in whole hours since datetime.min (0001-01-01 00:00,    *)
(* a Monday), so date() is t \div 24 and weekday() is (t \div 24) % 7 with *)
(* Monday = 0, as in Python.  Two reads of the clock within one hour give   *)
(* the same value: a row stamped in the hour in which _get_next_post reads *)
(* the clock lies inside its window.                                       *)
(***************************************************************************)
EXTENDS Integers, Sequences, FiniteSets, TLC

VARIABLES
    now,              \* datetime.utcnow(), in hours
    start,            \* the time the process started at
    config,           \* ContentGenerator.config (content_config)
    last_thread_time, \* ContentGenerator.last_thread_time
    daily_posts,      \* ContentGenerator.daily_posts
    daily_threads,    \* ContentGenerator.daily_threads
    posts,            \* the posts table: a sequence of Post rows, id = index
    cve_db,           \* the cves table: id -> processed flag
    pc,               \* position of the generate_content call in flight
    ret,              \* what the last generate_content call returned
    draw,             \* random.random() of this call, in tenths
    cves,             \* _generate_cve_thread: candidates not yet tried
    thread_posts,     \* _store_thread: number of posts of the thread
    thread_time,      \* _store_thread: thread_time
    thread_i,         \* _store_thread: posts of the thread added so far
    single_time,      \* _generate_single_post: post_data["timestamp"]
    call,             \* bookkeeping of the call in flight (see NoCall)
    calls,            \* number of generate_content calls started
    pub,              \* PostScheduler._post_thread in flight (see PubIdle)
    post_content,     \* _post_thread: post.content, a sequence of characters
    truncated,        \* _truncate_if_needed: what it returned (see NotTruncated)
    due,              \* PostScheduler._get_next_post in flight (see DueIdle)
    cve_data,         \* _is_interesting_cve: the record it is given
    classified,       \* _is_interesting_cve: what it returned (see NotClassified)
    posting_windows,  \* PostScheduler.posting_windows
    utc_time,         \* _in_posting_window: datetime.utcnow().time()
    in_window,        \* _in_posting_window: what it returned (see NotChecked)
    run               \* PostScheduler.run in flight (see RunIdle)

genVars == <<config, last_thread_time, daily_posts, daily_threads, pc, ret,
             draw, cves, thread_posts, thread_time, thread_i, single_time,
             call, calls>>
schedVars == <<post_content, truncated, due>>
auxVars == <<cve_data, classified, posting_windows, utc_time, in_window, run>>
vars == <<now, start, posts, cve_db, genVars, pub, schedVars, auxVars>>

-----------------------------------------------------------------------------
(* Bounds of the model *)

\* hours the clock advances per tick
ClockStep == 2
\* hours of clock the model explores after the start
Horizon == 8
\* generate_content calls per behaviour
MaxCalls == 2
\* rows the cves table can hold
MaxCves == 2
\* the configured max_daily_posts
MaxDailyPosts == 2
\* the configured max_thread_length
MaxThreadLength == 2
\* posts handed to _post_thread
MaxPubPosts == 3
\* calls of _post_thread per behaviour
MaxPubCalls == 2
\* parentheses and blanks in the content of a post
MaxMarks == 3
\* calls of _get_next_post per behaviour
MaxDueCalls == 2

\* the times the process may start at: 20:00 of the Thursday, Friday, Saturday
\* or Sunday of the second week after datetime.min, so that the night that
\* follows leads from a weekday to a weekday, from a weekday to the weekend,
\* through the weekend, or from the weekend to a weekday
StartTimes == {(7 + d) * 24 + 20 : d \in 3 .. 6}

-----------------------------------------------------------------------------
(* datetime *)

\* datetime.min
DatetimeMin == 0

\* datetime.date(): the day number
Date(t) == t \div 24

\* datetime.weekday(): Monday = 0 ... Sunday = 6
Weekday(t) == (t \div 24) % 7

-----------------------------------------------------------------------------
(* The store: Database and the Post / CVE rows *)

\* thread_position of a row that has none (None)
NoPosition == 0

\* post_id of a row not yet posted (None)
NoPostId == 0

\* Post(**post_data) as Database.add_post stores it: the id is the row's
\* index, scheduled_time is never set by the generator, posted defaults to
\* False and post_id to None.
Post(timestamp, is_thread, thread_position, cve_id) ==
    [timestamp |-> timestamp, is_thread |-> is_thread,
     thread_position |-> thread_position, cve_id |-> cve_id,
     posted |-> FALSE, post_id |-> NoPostId]

\* cve_id of a post that is not about a CVE (None)
NoCve == 0

\* Database.add_post: one new row, committed
add_post(row) == Append(posts, row)

\* Database.get_unprocessed_cves: the ids of the unprocessed rows, newest
\* first (ids are handed out in publication order)
RECURSIVE Descending(_)
Descending(S) ==
    IF S = {} THEN <<>>
    ELSE LET m == CHOOSE x \in S : \A y \in S : y <= x
         IN <<m>> \o Descending(S \ {m})

get_unprocessed_cves == Descending({c \in DOMAIN cve_db : ~cve_db[c]})

\* the first n elements of a sequence: s[:n]
Take(s, n) == SubSeq(s, 1, IF Len(s) < n THEN Len(s) ELSE n)

\* the elements of s that are in S, in the order of s
RECURSIVE Keep(_, _)
Keep(s, S) ==
    IF s = <<>> THEN <<>>
    ELSE (IF Head(s) \in S THEN <<Head(s)>> ELSE <<>>) \o Keep(Tail(s), S)

\* the elements of a sequence, as a set
Range(s) == {s[k] : k \in DOMAIN s}

-----------------------------------------------------------------------------
(* ContentGenerator *)

\* bookkeeping of one generate_content call: what it has done so far
\*   base             rows of the posts table when the call started
\*   unprocessed      unprocessed rows of the cves table when it started
\*   posts_at_check   daily_posts as the quota check read it
\*   threads_at_check daily_threads as the gate of the thread path read it
\*   gate             the gate of the thread path held
\*   single           _generate_single_post was entered
\*   backlog          calls of process_backlog
\*   pulled           candidates process_backlog returned
\*   llm_thread       calls of llm.generate_cve_thread
\*   llm_single       calls of llm.generate_technical_post
\*   accepted         posts of the thread _create_cve_thread accepted last
\*   raised           a collaborator or a configuration lookup raised
\*   is_valid         is_valid of the pair llm.generate_cve_thread gave last
\*   generated        len(posts) of that pair
\*   post_is_valid    is_valid of the pair llm.generate_technical_post gave
\*   post_has_content the content of that pair is not empty
NoCall == [base |-> 0, unprocessed |-> 0, posts_at_check |-> 0,
           threads_at_check |-> 0, gate |-> FALSE, single |-> FALSE,
           backlog |-> 0, pulled |-> 0, llm_thread |-> 0, llm_single |-> 0,
           accepted |-> 0, raised |-> FALSE, is_valid |-> FALSE,
           generated |-> 0, post_is_valid |-> FALSE,
           post_has_content |-> FALSE]

\* _can_post_thread, evaluated at time t
can_post_thread(t) ==
    /\ ~(daily_threads >= 1)
    /\ ~(Weekday(t) >= 5)
    /\ ~(t - last_thread_time < 4)

\* generate_content, line 181: the gate of the thread path
thread_gate(t, threads) == Weekday(t) < 5 /\ threads = 0

\* the quota check with > for >=
quota_reached_strict(count) == count > config["max_daily_posts"]

\* generate_content, line 176: the quota check
quota_reached(count) == count >= config["max_daily_posts"]

\* the draw compared with <= for <
draw_passes_inclusive(d) == d <= 7

\* generate_content, line 183: the draw that lets the thread path run
draw_passes(d) == d < 7

\* the values random.random() is drawn from, in tenths
Draws == {6, 7}

\* the call returns r to _content_generation_loop
Return(r) ==
    /\ pc' = "return"
    /\ ret' = r

\* the outermost except clause re-raising to the caller
OnExceptionReraise ==
    /\ pc' = "raised"
    /\ ret' = ret

\* generate_content, lines 189-191: an exception that reaches the outermost
\* except clause is logged and the call returns False
OnException == Return(FALSE)

\* the reset taken once 24 hours have passed since the last thread
day_advanced_24h(t) == t - last_thread_time >= 24

\* generate_content, line 171: the UTC date has advanced past the date of the
\* last thread
day_advanced(t) == Date(t) > Date(last_thread_time)

\* the position taken as the 0-based index
thread_position_zero_based(i) == i

\* every post of a thread given the first position
thread_position_first(i) == 1

\* _store_thread, line 147: the position of the post at index i of the thread
thread_position_of(i) == i + 1

\* the trigger starting a call whether or not the previous one has returned
trigger_unawaited == TRUE

\* _content_generation_loop, lines 101-111: the loop awaits generate_content
\* and then sleeps, so it calls again only after the previous call returned
previous_call_returned == pc = "idle"

\* generate_content, from its first line to its first await: the day reset,
\* the quota check and the choice of the path.  A missing configuration key
\* raises KeyError, which the except clause of line 189 turns into False.
GenStart ==
    /\ previous_call_returned
    /\ calls < MaxCalls
    /\ calls' = calls + 1
    /\ LET reset == day_advanced(now)
           dp == IF reset THEN 0 ELSE daily_posts
           dt == IF reset THEN 0 ELSE daily_threads
           c0 == [NoCall EXCEPT !.base = Len(posts),
                                !.unprocessed = Len(get_unprocessed_cves),
                                !.posts_at_check = dp,
                                !.threads_at_check = dt]
       IN /\ daily_posts' = dp
          /\ daily_threads' = dt
          /\ IF "max_daily_posts" \notin DOMAIN config
             THEN /\ OnException
                  /\ call' = [c0 EXCEPT !.raised = TRUE]
                  /\ draw' = draw
             ELSE IF quota_reached(dp)
             THEN /\ Return(FALSE)
                  /\ call' = c0
                  /\ draw' = draw
             ELSE IF thread_gate(now, dt)
             THEN \E d \in Draws :
                    /\ draw' = d
                    /\ call' = [c0 EXCEPT !.gate = TRUE,
                                          !.single = ~draw_passes(d)]
                    /\ pc' = IF draw_passes(d) THEN "backlog" ELSE "single"
                    /\ ret' = ret
             ELSE /\ pc' = "single"
                  /\ call' = [c0 EXCEPT !.single = TRUE]
                  /\ draw' = draw
                  /\ ret' = ret
    /\ UNCHANGED <<now, start, config, last_thread_time, posts, cve_db, cves,
                   thread_posts, thread_time, thread_i, single_time, pub, schedVars, auxVars>>

\* the loop of _generate_cve_thread ending with True
NextCandidateEndsTrue(rest) ==
    /\ cves' = rest
    /\ IF rest = <<>>
       THEN Return(TRUE)
       ELSE pc' = "candidate" /\ ret' = ret

\* the next candidate of the loop of _generate_cve_thread, or its end:
\* line 273 returns False with no single post tried
NextCandidate(rest) ==
    /\ cves' = rest
    /\ IF rest = <<>>
       THEN Return(FALSE)
       ELSE pc' = "candidate" /\ ret' = ret

\* _generate_cve_thread, line 255: limit=5
BacklogLimit == 5

\* the whole list of the unprocessed rows
without_limit(unprocessed) == unprocessed

\* process_backlog, line 222: unprocessed[:limit]
up_to_limit(unprocessed) == Take(unprocessed, BacklogLimit)

\* CVECollector.process_backlog(limit=5), awaited at line 255: the first 5
\* unprocessed rows; those get_cve_with_writeups finds details for are marked
\* processed and returned.  An exception inside it (raised) is caught there
\* and makes it return [], whatever was marked before.
ProcessBacklog ==
    /\ pc = "backlog"
    /\ LET unprocessed == up_to_limit(get_unprocessed_cves)
       IN \E found \in SUBSET Range(unprocessed), raised \in BOOLEAN :
            LET processed == IF raised THEN <<>> ELSE Keep(unprocessed, found)
            IN /\ cve_db' = [c \in 1 .. Len(cve_db) |-> cve_db[c] \/ c \in found]
               /\ call' = [call EXCEPT !.backlog = @ + 1,
                                       !.pulled = Len(processed)]
               /\ NextCandidate(processed)
    /\ UNCHANGED <<now, start, config, last_thread_time, daily_posts, daily_threads,
                   posts, draw, thread_posts, thread_time, thread_i,
                   single_time, calls, pub, schedVars, auxVars>>

\* _generate_cve_thread, lines 257-264, for the candidate at the head of
\* cves: _can_post_thread at the current time; a candidate that may not be
\* posted is skipped, for the others _create_cve_thread starts and awaits the
\* history and the generation service.
TryCandidate ==
    /\ pc = "candidate"
    /\ IF ~can_post_thread(now)
       THEN NextCandidate(Tail(cves))
       ELSE pc' = "create" /\ UNCHANGED <<cves, ret>>
    /\ UNCHANGED <<now, start, config, last_thread_time, daily_posts,
                   daily_threads, posts, cve_db, draw, thread_posts,
                   thread_time, thread_i, single_time, call, calls, pub, schedVars, auxVars>>

\* the exception left to end the loop: generate_content returns False
candidate_exception_ends_loop == cves' = cves /\ Return(FALSE)

\* _create_cve_thread, lines 76-78, and _store_thread, lines 162-164: the
\* exception is logged, the candidate has failed, and the loop of
\* _generate_cve_thread goes on
on_candidate_exception == NextCandidate(Tail(cves))

\* a thread of one post more than max_thread_length let through
thread_too_long_by_two(n) == n > config["max_thread_length"] + 1

\* _create_cve_thread, line 70: len(posts) > max_thread_length
thread_too_long(n) == n > config["max_thread_length"]

\* _create_cve_thread, lines 55-78, and the start of _store_thread: the
\* history is fetched (the store may raise), llm.generate_cve_thread gives a
\* pair (is_valid, posts) or raises.  _create_cve_thread catches every
\* exception, the KeyError of a missing max_thread_length too, and the loop
\* goes on.  An accepted thread enters _store_thread, which reads thread_time
\* at line 136.
CreateThread ==
    /\ pc = "create"
    /\ \/ \* _get_post_history raises
          /\ on_candidate_exception
          /\ call' = [call EXCEPT !.raised = TRUE]
          /\ UNCHANGED <<thread_posts, thread_time, thread_i>>
       \/ \* llm.generate_cve_thread raises
          /\ on_candidate_exception
          /\ call' = [call EXCEPT !.raised = TRUE, !.llm_thread = @ + 1]
          /\ UNCHANGED <<thread_posts, thread_time, thread_i>>
       \/ \E is_valid \in BOOLEAN, n \in 0 .. MaxThreadLength + 1 :
            LET generated == [call EXCEPT !.llm_thread = @ + 1,
                                          !.is_valid = is_valid,
                                          !.generated = n]
            IN IF ~is_valid \/ n = 0
               THEN /\ NextCandidate(Tail(cves))
                    /\ call' = generated
                    /\ UNCHANGED <<thread_posts, thread_time, thread_i>>
               ELSE IF "max_thread_length" \notin DOMAIN config
               THEN /\ on_candidate_exception
                    /\ call' = [generated EXCEPT !.raised = TRUE]
                    /\ UNCHANGED <<thread_posts, thread_time, thread_i>>
               ELSE IF thread_too_long(n)
               THEN /\ NextCandidate(Tail(cves))
                    /\ call' = generated
                    /\ UNCHANGED <<thread_posts, thread_time, thread_i>>
               ELSE /\ call' = [generated EXCEPT !.accepted = n]
                    /\ thread_posts' = n
                    /\ thread_time' = now
                    /\ thread_i' = 0
                    /\ pc' = "store"
                    /\ UNCHANGED <<cves, ret>>
    /\ UNCHANGED <<now, start, config, last_thread_time, daily_posts,
                   daily_threads, posts, cve_db, draw, single_time, calls,
                   pub, schedVars, auxVars>>

\* a thread counted as one post
daily_posts_after_thread_as_one(n) == daily_posts + 1

\* _store_thread, line 158: daily_posts += len(posts)
daily_posts_after_thread(n) == daily_posts + n

\* _store_thread, lines 138-160: db.add_post of the next post of the thread
\* (position thread_i + 1, the shared thread_time, the candidate's id).  After
\* the last one the cadence counters advance and the call returns True.  An
\* exception of the store is caught at line 162: _store_thread returns False
\* and the loop goes on to the next candidate; the rows added stay.
StoreThreadPost ==
    /\ pc = "store"
    /\ \/ /\ posts' = add_post(Post(thread_time, TRUE, thread_position_of(thread_i),
                                  Head(cves)))
          /\ thread_i' = thread_i + 1
          /\ IF thread_i + 1 = thread_posts
             THEN /\ last_thread_time' = thread_time
                  /\ daily_threads' = daily_threads + 1
                  /\ daily_posts' = daily_posts_after_thread(thread_posts)
                  /\ Return(TRUE)
             ELSE UNCHANGED <<last_thread_time, daily_threads, daily_posts,
                              pc, ret>>
          /\ UNCHANGED <<cves, call>>
       \/ /\ on_candidate_exception
          /\ call' = [call EXCEPT !.raised = TRUE]
          /\ UNCHANGED <<posts, thread_i, last_thread_time, daily_threads,
                         daily_posts>>
    /\ UNCHANGED <<now, start, config, cve_db, draw, thread_posts, thread_time,
                   single_time, calls, pub, schedVars, auxVars>>

\* a post rejected for its invalidity alone
post_rejected_if_invalid(is_valid, content) == ~is_valid

\* _generate_single_post, line 202: not is_valid or not content
post_rejected(is_valid, content) == ~is_valid \/ ~content

\* _generate_single_post, lines 195-214: _choose_topic and the history (the
\* store may raise), then llm.generate_technical_post: a pair (is_valid,
\* content), or an exception.  Every exception is caught at line 220.  A valid,
\* non-empty post gets its timestamp at line 209.
GenerateSinglePost ==
    /\ pc = "single"
    /\ \/ \* _get_post_history raises, in _choose_topic or at line 200
          /\ Return(FALSE)
          /\ call' = [call EXCEPT !.raised = TRUE]
          /\ UNCHANGED single_time
       \/ \* llm.generate_technical_post raises
          /\ Return(FALSE)
          /\ call' = [call EXCEPT !.raised = TRUE, !.llm_single = @ + 1]
          /\ UNCHANGED single_time
       \/ \E is_valid \in BOOLEAN, content \in BOOLEAN :
            /\ call' = [call EXCEPT !.llm_single = @ + 1,
                                    !.post_is_valid = is_valid,
                                    !.post_has_content = content]
            /\ IF post_rejected(is_valid, content)
               THEN Return(FALSE) /\ UNCHANGED single_time
               ELSE /\ single_time' = now
                    /\ pc' = "single_store"
                    /\ ret' = ret
    /\ UNCHANGED <<now, start, config, last_thread_time, daily_posts, daily_threads,
                   posts, cve_db, draw, cves, thread_posts, thread_time,
                   thread_i, calls, pub, schedVars, auxVars>>

\* _generate_single_post, lines 216-218: db.add_post of the single post, then
\* daily_posts += 1 and True; an exception of the store gives False.
StoreSinglePost ==
    /\ pc = "single_store"
    /\ \/ /\ posts' = add_post(Post(single_time, FALSE, NoPosition, NoCve))
          /\ daily_posts' = daily_posts + 1
          /\ Return(TRUE)
          /\ UNCHANGED call
       \/ /\ Return(FALSE)
          /\ call' = [call EXCEPT !.raised = TRUE]
          /\ UNCHANGED <<posts, daily_posts>>
    /\ UNCHANGED <<now, start, config, last_thread_time, daily_threads, cve_db, draw,
                   cves, thread_posts, thread_time, thread_i, single_time,
                   calls, pub, schedVars, auxVars>>

\* _content_generation_loop, lines 106-111: the call has returned, its locals
\* are gone, and the loop sleeps until the next call.
GenReturn ==
    /\ pc = "return"
    /\ pc' = "idle"
    /\ draw' = 0
    /\ cves' = <<>>
    /\ thread_posts' = 0
    /\ thread_time' = 0
    /\ thread_i' = 0
    /\ single_time' = 0
    /\ call' = NoCall
    /\ UNCHANGED <<now, start, config, last_thread_time, daily_posts, daily_threads,
                   posts, cve_db, ret, calls, pub, schedVars, auxVars>>

\* the clock advances, between calls and during the awaits of a call
Tick ==
    /\ now + ClockStep <= start + Horizon
    /\ now' = now + ClockStep
    /\ UNCHANGED <<start, posts, cve_db, genVars, pub, schedVars, auxVars>>

-----------------------------------------------------------------------------
(* PostScheduler._post_thread *)

\* previous_id before the first tweet of a thread (None)
NoTweet == 0

\* the scheduler between two calls of _post_thread:
\*   pc            position of the call in flight
\*   is_test_mode  PostScheduler.is_test_mode
\*   posts         the argument of the call: ids of rows of the posts table
\*   i             index of the post the loop of line 107 is at
\*   previous_id   the local previous_id
\*   sent          the create_tweet calls made: post, reply target, result
\*   failed        index of the post whose create_tweet raised, or 0
\*   ret           what the call returned
\*   before        the posts table when the call started
\*   tweets        tweets the platform has accepted so far
\*   calls         calls of _post_thread so far
PubIdle(test) ==
    [pc |-> "idle", is_test_mode |-> test, posts |-> <<>>, i |-> 0,
     previous_id |-> NoTweet, sent |-> <<>>, failed |-> 0, ret |-> FALSE,
     before |-> <<>>, tweets |-> 0, calls |-> 0]

\* Database.mark_post_posted: the row, if there is one, becomes posted and
\* gets the tweet's id
mark_post_posted(post_id, x_post_id) ==
    IF post_id \in DOMAIN posts
    THEN [posts EXCEPT ![post_id].posted = TRUE, ![post_id].post_id = x_post_id]
    ELSE posts

\* _post_thread returns r
PubReturn(r) == pub' = [pub EXCEPT !.pc = "return", !.ret = r]

\* the except clause of line 127 going on with the next post
OnTweepErrorContinue(sent) ==
    pub' = [pub EXCEPT !.sent = sent, !.failed = pub.i,
                       !.pc = IF pub.i = Len(pub.posts) THEN "return"
                              ELSE "submit",
                       !.i = IF pub.i = Len(pub.posts) THEN @ ELSE @ + 1,
                       !.ret = pub.i = Len(pub.posts)]

\* _post_thread, lines 127-129: create_tweet raised a delivery error; the
\* remaining posts are abandoned and the call returns False.  (Where tweepy
\* has no TweepError the clause itself raises, and line 133 returns False.)
OnTweepError(sent) ==
    pub' = [pub EXCEPT !.sent = sent, !.failed = pub.i,
                       !.pc = "return", !.ret = FALSE]

\* what run() hands to _post_thread, as _get_next_post builds it: the rows of
\* a thread in the order of their positions, or one single post
RECURSIVE ByPosition(_)
ByPosition(S) ==
    IF S = {} THEN <<>>
    ELSE LET m == CHOOSE x \in S :
                    \A y \in S : posts[x].thread_position <= posts[y].thread_position
         IN <<m>> \o ByPosition(S \ {m})

PubInputs ==
    {ByPosition({r \in DOMAIN posts : posts[r].thread_position # NoPosition})}
    \cup {<<r>> : r \in {x \in DOMAIN posts : ~posts[x].is_thread}}

\* the id the platform gives the next tweet: ids are opaque and never reused
NewTweetId == pub.tweets + 1

\* a scheduler that takes itself never to be in test mode
is_test_mode_ignored == FALSE

\* _post_thread, line 97: if self.is_test_mode
is_test_mode == pub.is_test_mode

\* _post_thread, lines 97-105: in test mode the posts are logged and the call
\* returns True; otherwise the loop starts with previous_id = None
PubStart ==
    /\ pub.pc = "idle"
    /\ pub.calls < MaxPubCalls
    /\ \E list \in PubInputs \ {<<>>} :
         IF is_test_mode
         THEN pub' = [pub EXCEPT !.posts = list, !.before = posts,
                                 !.calls = @ + 1,
                                 !.pc = "return", !.ret = TRUE]
         ELSE pub' = [pub EXCEPT !.posts = list, !.before = posts,
                                 !.calls = @ + 1,
                                 !.pc = "submit", !.i = 1,
                                 !.previous_id = NoTweet]
    /\ UNCHANGED <<now, start, posts, cve_db, genVars, schedVars, auxVars>>

\* every later tweet sent in reply to the first tweet of the call
in_reply_to_first == IF pub.sent = <<>> THEN NoTweet ELSE pub.sent[1].id

\* _post_thread, lines 111-119: the tweet the next one is sent in reply to:
\* previous_id if there is one, and none (NoTweet) otherwise
in_reply_to_tweet_id ==
    IF pub.previous_id # NoTweet THEN pub.previous_id ELSE NoTweet

\* _post_thread, lines 109-121: client.create_tweet for the post at i, as a
\* reply to previous_id when there is one.  It returns the new tweet's id,
\* raises a delivery error, or raises something else, which line 133 catches.
PubSubmit ==
    /\ pub.pc = "submit"
    /\ LET tweet(id) == [post |-> pub.posts[pub.i],
                         in_reply_to |-> in_reply_to_tweet_id, id |-> id]
       IN \/ pub' = [pub EXCEPT !.sent = Append(@, tweet(NewTweetId)),
                                !.previous_id = NewTweetId,
                                !.tweets = @ + 1, !.pc = "mark"]
          \/ OnTweepError(Append(pub.sent, tweet(NoTweet)))
          \/ pub' = [pub EXCEPT !.sent = Append(@, tweet(NoTweet)),
                                !.pc = "return", !.ret = FALSE]
    /\ UNCHANGED <<now, start, posts, cve_db, genVars, schedVars, auxVars>>

\* _post_thread, line 122: db.mark_post_posted with the id of the tweet; an
\* exception of the store is caught at line 133
PubMark ==
    /\ pub.pc = "mark"
    /\ \/ /\ posts' = mark_post_posted(pub.posts[pub.i], pub.previous_id)
          /\ pub' = [pub EXCEPT !.pc = "sleep"]
       \/ /\ PubReturn(FALSE)
          /\ UNCHANGED posts
    /\ UNCHANGED <<now, start, cve_db, genVars, schedVars, auxVars>>

\* _post_thread, lines 125 and 131: asyncio.sleep(1), then the next post, or
\* True after the last one
PubSleep ==
    /\ pub.pc = "sleep"
    /\ IF pub.i = Len(pub.posts)
       THEN PubReturn(TRUE)
       ELSE pub' = [pub EXCEPT !.pc = "submit", !.i = @ + 1]
    /\ UNCHANGED <<now, start, posts, cve_db, genVars, schedVars, auxVars>>

\* run(), lines 161-166: the result is logged and the loop sleeps
PubDone ==
    /\ pub.pc = "return"
    /\ pub' = [PubIdle(pub.is_test_mode) EXCEPT !.tweets = pub.tweets,
                                                !.calls = pub.calls]
    /\ UNCHANGED <<now, start, posts, cve_db, genVars, schedVars, auxVars>>

-----------------------------------------------------------------------------
(* PostScheduler._truncate_if_needed: a text is a sequence of characters *)

\* X's character limit
CharacterLimit == 280

\* the characters kept in front of the ellipsis
KeptCharacters == 277

\* the ellipsis one dot short
EllipsisTwoDots == <<".", ".">>

\* "..."
Ellipsis == <<".", ".", ".">>

\* the value of truncated before _truncate_if_needed has returned
NotTruncated == <<"?">>

\* str.count(c)
count(s, c) == Cardinality({k \in DOMAIN s : s[k] = c})

\* str.rfind(c): the 0-based index of the last c, or -1
rfind(s, c) ==
    LET at == {k \in DOMAIN s : s[k] = c}
    IN IF at = {} THEN -1
       ELSE (CHOOSE k \in at : \A j \in at : j <= k) - 1

\* str.strip(): leading and trailing whitespace removed
strip(s) ==
    LET ink == {k \in DOMAIN s : s[k] # " "}
    IN IF ink = {} THEN <<>>
       ELSE SubSeq(s, CHOOSE k \in ink : \A j \in ink : k <= j,
                      CHOOSE k \in ink : \A j \in ink : j <= k)

\* the repair taken at every imbalance, wherever the last parentheses are
cut_before_last_open_always(last_open, last_close) == last_open >= 0

\* _truncate_if_needed, line 87: the cut fell inside an explanation that was
\* opened after the last one was closed
cut_inside_explanation(last_open, last_close) == last_open > last_close

\* the limit compared with < for <=
within_limit_strict(s) == Len(s) < CharacterLimit

\* _truncate_if_needed, line 76 (and _validate_post_length): the text fits
within_limit(s) == Len(s) <= CharacterLimit

\* the rule of lines 80 and 91 keeping the whole limit in front of the ellipsis
ellipsize_at_limit(s) == Take(s, CharacterLimit) \o Ellipsis

\* _truncate_if_needed, lines 80 and 91: the first 277 characters and "..."
ellipsize(s) == Take(s, KeptCharacters) \o Ellipsis

\* _truncate_if_needed
truncate_if_needed(text) ==
    IF within_limit(text) THEN text
    ELSE LET cut == ellipsize(text)
         IN IF count(cut, "(") # count(cut, ")")
            THEN LET last_open == rfind(cut, "(")
                     last_close == rfind(cut, ")")
                 IN IF cut_inside_explanation(last_open, last_close)
                    THEN LET before == strip(Take(text, last_open))
                         IN IF Len(before) > KeptCharacters
                            THEN ellipsize(before)
                            ELSE before
                    ELSE cut
            ELSE cut

\* _post_thread, line 109: the content of the post is truncated; what comes
\* back is the text lines 112-119 hand to create_tweet, unchanged
TruncateContent ==
    /\ truncated = NotTruncated
    /\ truncated' = truncate_if_needed(post_content)
    /\ UNCHANGED <<now, start, posts, cve_db, genVars, pub, post_content, due,
                   auxVars>>

\* the characters a text is made of, other than the letter "x"
Marks == {"(", ")", " "}

\* the lengths of the texts: short, at the limit, just over it, well over it
Lengths == {2, CharacterLimit, CharacterLimit + 1, 300}

\* the places of a text, counted from 1, where a mark may stand: at its start,
\* around character 277, and past the limit
Places == {1, 2, 3, 276, 277, 278, 279, 283}

\* the text of n characters with the marks m, and "x" everywhere else
Layout(n, m) == [k \in 1 .. n |-> IF k \in DOMAIN m THEN m[k] ELSE "x"]

\* the contents of the posts: texts of the Lengths with up to MaxMarks marks
Contents ==
    {Layout(n, m) : n \in Lengths,
                    m \in UNION {[P -> Marks] :
                                   P \in {Q \in SUBSET Places :
                                            Cardinality(Q) <= MaxMarks}}}

-----------------------------------------------------------------------------
(* PostScheduler._get_next_post *)

\* the hours _get_next_post looks ahead
LookaheadHours == 4

\* scheduled_time of a row that has none (None)
NoTime == -1

\* Post.scheduled_time: the column is nullable and has no default, and neither
\* the generator nor any other code of the program assigns it
scheduled_time(row) == NoTime

\* the state of _get_next_post
\*   pc        "idle", "query" (db.get_posts_in_timeframe awaited), "return"
\*   now       the time read at line 51
\*   returned  the rows the store returned, in the order it returned them
\*   result    the list of rows returned to the caller: <<>> stands for None
\*   calls     calls of _get_next_post so far
DueIdle == [pc |-> "idle", now |-> 0, returned |-> <<>>, result |-> <<>>,
            calls |-> 0]

\* Database.get_posts_in_timeframe, lines 70-78: the rows whose timestamp lies
\* in [start_time, end_time]
rows_in_timeframe(start_time, end_time) ==
    {r \in DOMAIN posts : /\ posts[r].timestamp >= start_time
                          /\ posts[r].timestamp <= end_time}

\* the orders a query with no ORDER BY may return the rows S in
RECURSIVE Orders(_)
Orders(S) ==
    IF S = {} THEN {<<>>}
    ELSE UNION {{<<r>> \o o : o \in Orders(S \ {r})} : r \in S}

\* the list left as the store returned it
unsorted(list) == list

\* _get_next_post, line 61: list.sort(key=thread_position), a stable sort
RECURSIVE sort_by_position(_)
sort_by_position(list) ==
    IF list = <<>> THEN <<>>
    ELSE LET p == posts[Head(list)].thread_position
             rest == sort_by_position(Tail(list))
             lower(r) == posts[r].thread_position < p
             upper(r) == ~(posts[r].thread_position < p)
         IN SelectSeq(rest, lower) \o <<Head(list)>> \o SelectSeq(rest, upper)

\* _get_next_post, lines 55-64, on the rows the store returned: None for no
\* row; for a first row that is of a thread, every row with a position, by
\* position; otherwise the first row alone
next_post(returned) ==
    IF returned = <<>> THEN <<>>
    ELSE IF posts[returned[1]].is_thread
         THEN LET positioned(r) == posts[r].thread_position # NoPosition
              IN sort_by_position(SelectSeq(returned, positioned))
         ELSE <<returned[1]>>

\* _get_next_post, lines 51-54: the time is read and the query is sent
DueStart ==
    /\ due.pc = "idle"
    /\ pub.pc = "idle"
    /\ due.calls < MaxDueCalls
    /\ due' = [DueIdle EXCEPT !.pc = "query", !.now = now,
                              !.calls = due.calls + 1]
    /\ UNCHANGED <<now, start, posts, cve_db, genVars, pub, post_content,
                   truncated, auxVars>>

\* _get_next_post, lines 54-68: the store answers, with the rows of the window
\* in some order, or raises, which line 66 turns into None
DueQuery ==
    /\ due.pc = "query"
    /\ \/ \E returned \in Orders(rows_in_timeframe(due.now,
                                                   due.now + LookaheadHours)) :
            due' = [due EXCEPT !.pc = "return", !.returned = returned,
                               !.result = next_post(returned)]
       \/ due' = [due EXCEPT !.pc = "return"]
    /\ UNCHANGED <<now, start, posts, cve_db, genVars, pub, post_content,
                   truncated, auxVars>>

\* the caller has taken what _get_next_post returned
DueDone ==
    /\ due.pc = "return"
    /\ due' = [DueIdle EXCEPT !.calls = due.calls]
    /\ UNCHANGED <<now, start, posts, cve_db, genVars, pub, post_content,
                   truncated, auxVars>>

-----------------------------------------------------------------------------
(* CVECollector._is_interesting_cve: descriptions and terms are strings *)

\* phrases a description is made of
MaxPhrases == 2

\* classified before _is_interesting_cve has returned
NotClassified == <<>>

\* the capital letters and their lower-case forms
UpperCase == "ABCDEFGHIJKLMNOPQRSTUVWXYZ"
LowerCase == "abcdefghijklmnopqrstuvwxyz"

\* str.lower() of one character
lower_char(c) ==
    IF \E k \in 1 .. Len(UpperCase) : SubSeq(UpperCase, k, k) = c
    THEN LET k == CHOOSE k \in 1 .. Len(UpperCase) : SubSeq(UpperCase, k, k) = c
         IN SubSeq(LowerCase, k, k)
    ELSE c

\* str.lower()
RECURSIVE lower(_)
lower(s) ==
    IF Len(s) = 0 THEN s
    ELSE lower_char(SubSeq(s, 1, 1)) \o lower(SubSeq(s, 2, Len(s)))

\* term in desc: the term occurs somewhere in the description
contains(desc, term) ==
    \E k \in 1 .. Len(desc) - Len(term) + 1 :
        SubSeq(desc, k, k + Len(term) - 1) = term

\* dict.get(key, default)
get(d, key, default) == IF key \in DOMAIN d THEN d[key] ELSE default

\* _is_interesting_cve, lines 26-41
high_impact ==
    <<"remote code execution", "privilege escalation", "arbitrary code",
      "root access", "system takeover", "full access", "critical", "wormable",
      "code execution", "escalation of privileges", "host binary",
      "host device", "host's network", "data tampering">>

\* _is_interesting_cve, lines 44-57
clever_methods ==
    <<"chain", "race condition", "side channel", "type confusion",
      "novel technique", "zero-day", "sandbox escape", "container escape",
      "improper isolation", "creative", "specially crafted", "bypass">>

\* _is_interesting_cve, lines 60-69
notable ==
    <<"first time", "previously unknown", "breakthrough",
      "major vulnerability", "widespread impact", "affects all",
      "multiple vendors", "nondefault way">>

\* a category that asks for every one of its terms
all_in(terms, desc) == \A k \in DOMAIN terms : contains(desc, terms[k])

\* _is_interesting_cve, lines 72, 75, 78: any(term in desc for term in terms)
any_in(terms, desc) == \E k \in DOMAIN terms : contains(desc, terms[k])

\* the value of one decimal digit, or -1
digit(c) ==
    IF \E k \in 1 .. 10 : SubSeq("0123456789", k, k) = c
    THEN (CHOOSE k \in 1 .. 10 : SubSeq("0123456789", k, k) = c) - 1
    ELSE -1

\* float() of a text of the form D, D.D or DD.D, in tenths; any other text
\* raises ValueError
float_of_text(t) ==
    LET d(k) == digit(SubSeq(t, k, k))
        v == IF Len(t) = 1 /\ d(1) >= 0
                 THEN 10 * d(1)
             ELSE IF Len(t) = 3 /\ d(1) >= 0 /\ SubSeq(t, 2, 2) = "." /\ d(3) >= 0
                 THEN 10 * d(1) + d(3)
             ELSE IF Len(t) = 4 /\ d(1) >= 0 /\ d(2) >= 0
                     /\ SubSeq(t, 3, 3) = "." /\ d(4) >= 0
                 THEN 100 * d(1) + 10 * d(2) + d(4)
             ELSE -1
    IN IF v >= 0 THEN [value |-> v] ELSE [raises |-> "ValueError"]

\* float(x), in tenths: a number converts, a text is parsed, None raises
\* TypeError
float(x) ==
    IF "number" \in DOMAIN x THEN [value |-> x.number]
    ELSE IF "text" \in DOMAIN x THEN float_of_text(x.text)
    ELSE [raises |-> "TypeError"]

\* the threshold of the critical severity taken as exclusive
is_critical_exclusive(cvss_score) == cvss_score > 90

\* _is_interesting_cve, line 84: cvss_score >= 9.0
is_critical(cvss_score) == cvss_score >= 90

\* _is_interesting_cve, line 86: cvss_score >= 7.5
is_high(cvss_score) == cvss_score >= 75

\* _is_interesting_cve, line 88: the exceptions the except clause names
passed_over == {"TypeError", "ValueError"}

\* _is_interesting_cve, lines 82-90: the reason the CVSS score adds; an
\* exception of float() that the except clause names is passed over, any
\* other one leaves the function
severity_reasons(data) ==
    LET cvss_score == float(get(data, "cvss_score", [number |-> 0]))
    IN IF "raises" \in DOMAIN cvss_score
       THEN IF cvss_score.raises \in passed_over
            THEN [reasons |-> <<>>]
            ELSE [raises |-> cvss_score.raises]
       ELSE IF is_critical(cvss_score.value)
            THEN [reasons |-> <<"critical severity">>]
       ELSE IF is_high(cvss_score.value)
            THEN [reasons |-> <<"high severity">>]
       ELSE [reasons |-> <<>>]

\* an exception that leaves _is_interesting_cve
Raised(exception) == <<exception>>

\* _is_interesting_cve: the pair (is_interesting, reasons)
is_interesting_cve(data) ==
    LET desc == lower(get(data, "description", ""))
        severity == severity_reasons(data)
        reasons ==
            (IF any_in(high_impact, desc) THEN <<"high impact">> ELSE <<>>)
            \o (IF any_in(clever_methods, desc) THEN <<"clever method">> ELSE <<>>)
            \o (IF any_in(notable, desc) THEN <<"notable discovery">> ELSE <<>>)
            \o severity.reasons
    IN IF "raises" \in DOMAIN severity
       THEN Raised(severity.raises)
       ELSE <<Len(reasons) > 0, reasons>>

\* collect_recent_cves, line 114: the record is classified
Classify ==
    /\ classified = NotClassified
    /\ classified' = is_interesting_cve(cve_data)
    /\ UNCHANGED <<now, start, posts, cve_db, genVars, pub, schedVars, cve_data,
                   posting_windows, utc_time, in_window, run>>

\* the phrases of the descriptions NVDClient hands over
Phrases ==
    {"", "Remote Code Execution", "a Critical flaw with code execution",
     "blockchain", "Race Condition", "seen for the first time",
     "buffer overflow"}

\* descriptions of up to n phrases
RECURSIVE DescriptionsOf(_)
DescriptionsOf(n) ==
    IF n = 0 THEN {""}
    ELSE {d \o " " \o p : d \in DescriptionsOf(n - 1), p \in Phrases}

\* the CVSS scores NVDClient hands over: None, a baseScore in tenths, or a text
Scores ==
    {[none |-> TRUE]}
    \cup {[number |-> v] : v \in {0, 74, 75, 89, 90, 100}}
    \cup {[text |-> t] : t \in {"9.0", "7.4", "10.0", "high", ""}}

\* the records _is_interesting_cve is given: a key may be missing
CveRecords ==
    {[k \in {"description"} |-> d] : d \in DescriptionsOf(MaxPhrases)}
    \cup {[k \in {"cvss_score"} |-> s] : s \in Scores}
    \cup {[k \in {"description", "cvss_score"} |->
              IF k = "description" THEN d ELSE s] :
          d \in DescriptionsOf(MaxPhrases), s \in Scores}
    \cup {[k \in {} |-> ""]}

-----------------------------------------------------------------------------
(* PostScheduler._in_posting_window: a time of day is counted in seconds *)

\* windows of the posting configuration
MaxWindows == 2

\* in_window before _in_posting_window has returned
NotChecked == <<>>

\* datetime.strptime(text, "%H:%M").time() of a text HH:MM
strptime_time(text) ==
    LET d(k) == digit(SubSeq(text, k, k))
    IN (10 * d(1) + d(2)) * 3600 + (10 * d(4) + d(5)) * 60

\* PostScheduler.__init__, lines 31-37: the windows of the configuration,
\* parsed
parse_windows(time_windows) ==
    [k \in DOMAIN time_windows |->
        <<strptime_time(time_windows[k].start),
          strptime_time(time_windows[k].end)>>]

\* a window with its end left out
in_window_end_exclusive(window, t) == window[1] <= t /\ t < window[2]

\* _in_posting_window, line 43: start <= now <= end
in_window_of(window, t) == window[1] <= t /\ t <= window[2]

\* a scheduler that takes every time of day to be in a window
in_posting_window_always(t) == TRUE

\* _in_posting_window, lines 41-45, at the time of day t
in_posting_window(t) ==
    \E k \in DOMAIN posting_windows : in_window_of(posting_windows[k], t)

\* run, line 142: _in_posting_window reads the clock and answers
CheckWindow ==
    /\ in_window = NotChecked
    /\ in_window' = <<in_posting_window(utc_time)>>
    /\ UNCHANGED <<now, start, posts, cve_db, genVars, pub, schedVars, cve_data,
                   classified, posting_windows, utc_time, run>>

\* the times of day a window of the configuration starts or ends at
WindowTexts == {"00:00", "09:00", "17:30", "23:59"}

\* the time_windows of the posting configuration
RECURSIVE TimeWindowsOf(_)
TimeWindowsOf(n) ==
    IF n = 0 THEN {<<>>}
    ELSE TimeWindowsOf(n - 1)
         \cup {Append(w, [start |-> a, end |-> b]) :
               w \in TimeWindowsOf(n - 1), a \in WindowTexts, b \in WindowTexts}

\* the seconds of a day
SecondsOfDay == 0 .. 24 * 3600 - 1

\* the times of day the clock is read at: the starts and ends of the windows,
\* the second before, the second after and the last second of that minute
TimesOfDay ==
    {strptime_time(w) + d : w \in WindowTexts, d \in {-1, 0, 1, 59}}
    \cap SecondsOfDay

-----------------------------------------------------------------------------
(* PostScheduler.run *)

\* run before Bot.run awaits it
\*   pc      idle, top (of the while loop), query (awaiting the store inside
\*           _get_next_post), sleep, post (awaiting _post_thread), ended
\*   now     the clock as _get_next_post read it at line 52
\*   delay   seconds of the asyncio.sleep in flight
\*   raised  the exception the except clause of line 168 caught in the
\*           iteration in flight, "" for none
RunIdle == [pc |-> "idle", now |-> 0, delay |-> 0, raised |-> ""]

\* datetime.time() of a time in hours, in seconds of the day
time_of(t) == (t % 24) * 3600

\* await asyncio.sleep(seconds)
sleep(seconds) == run' = [run EXCEPT !.pc = "sleep", !.delay = seconds]

\* the exception leaving run
loop_exception_escapes(exception) ==
    run' = [run EXCEPT !.pc = "ended", !.raised = exception]

\* run, lines 168-170: the exception is logged and the loop sleeps 300 seconds
on_loop_exception(exception) ==
    run' = [run EXCEPT !.pc = "sleep", !.delay = 300, !.raised = exception]

\* Bot.run, line 92: the scheduler's loop is started
RunStart ==
    /\ run.pc = "idle"
    /\ run' = [run EXCEPT !.pc = "top"]
    /\ UNCHANGED <<now, start, posts, cve_db, genVars, pub, schedVars, cve_data,
                   classified, posting_windows, utc_time, in_window>>

\* run, lines 139-146, and _get_next_post, lines 51-54: outside the posting
\* windows the loop sleeps 300 seconds; inside, _get_next_post reads the clock
\* and sends its query
RunIterate ==
    /\ run.pc = "top"
    /\ IF ~in_posting_window(time_of(now))
       THEN run' = [run EXCEPT !.pc = "sleep", !.delay = 300, !.raised = ""]
       ELSE run' = [run EXCEPT !.pc = "query", !.now = now, !.raised = ""]
    /\ UNCHANGED <<now, start, posts, cve_db, genVars, pub, schedVars, cve_data,
                   classified, posting_windows, utc_time, in_window>>

\* _get_next_post, lines 54-68, and run, lines 146-160: the store answers or
\* raises, which gives None; on None the loop sleeps 300 seconds.  Otherwise
\* line 156 compares the scheduled_time of the first row with the clock: for
\* None the comparison raises TypeError, which the except clause catches.
RunNextPost ==
    /\ run.pc = "query"
    /\ \/ \E returned \in Orders(rows_in_timeframe(run.now,
                                                   run.now + LookaheadHours)) :
            LET next_posts == next_post(returned)
            IN IF next_posts = <<>>
               THEN sleep(300)
               ELSE IF scheduled_time(posts[next_posts[1]]) = NoTime
               THEN on_loop_exception("TypeError")
               ELSE run' = [run EXCEPT !.pc = "post"]
       \/ sleep(300)
    /\ UNCHANGED <<now, start, posts, cve_db, genVars, pub, schedVars, cve_data,
                   classified, posting_windows, utc_time, in_window>>

\* the asyncio.sleep of the loop is over
RunWake ==
    /\ run.pc = "sleep"
    /\ run' = [run EXCEPT !.pc = "top", !.delay = 0]
    /\ UNCHANGED <<now, start, posts, cve_db, genVars, pub, schedVars, cve_data,
                   classified, posting_windows, utc_time, in_window>>

\* the collector and the scheduler's loop at rest
AuxIdle ==
    /\ cve_data = [k \in {} |-> ""]
    /\ classified = NotClassified
    /\ posting_windows = <<>>
    /\ utc_time = 0
    /\ in_window = NotChecked
    /\ run = RunIdle

\* the configurations the generator is constructed with: a key may be missing
Configs ==
    {[max_daily_posts |-> MaxDailyPosts, max_thread_length |-> MaxThreadLength],
     [max_daily_posts |-> MaxDailyPosts],
     [max_thread_length |-> MaxThreadLength]}


\* the cves table the generator finds: rows collect_recent_cves stored
Backlogs == {[c \in 1 .. k |-> FALSE] : k \in 0 .. MaxCves}

\* ContentGenerator.__init__, an empty posts table, and the clock at one of
\* the StartTimes
Init ==
    /\ start \in StartTimes
    /\ now = start
    /\ config \in Configs
    /\ last_thread_time = DatetimeMin
    /\ daily_posts = 0
    /\ daily_threads = 0
    /\ posts = <<>>
    /\ cve_db \in Backlogs
    /\ pc = "idle"
    /\ ret = FALSE
    /\ draw = 0
    /\ cves = <<>>
    /\ thread_posts = 0
    /\ thread_time = 0
    /\ thread_i = 0
    /\ single_time = 0
    /\ call = NoCall
    /\ calls = 0
    /\ pub = PubIdle(FALSE)
    /\ post_content = <<>>
    /\ truncated = NotTruncated
    /\ due = DueIdle
    /\ AuxIdle

Next ==
    \/ GenStart
    \/ ProcessBacklog
    \/ TryCandidate
    \/ CreateThread
    \/ StoreThreadPost
    \/ GenerateSinglePost
    \/ StoreSinglePost
    \/ GenReturn
    \/ Tick

Spec == Init /\ [][Next]_vars

-----------------------------------------------------------------------------
(* Properties of generate_content *)

\* the rows the call in flight has added to the posts table
Added == SubSeq(posts, call.base + 1, Len(posts))

\* the step that starts a generate_content call
CallStarts == pc = "idle" /\ pc' # "idle"

\* the step of _store_thread that commits a thread (lines 156-160)
ThreadCommits == pc = "store" /\ pc' = "return" /\ ret'

\* C1: every thread generate_content commits is stamped on a Monday to
\* Friday, on a UTC day no earlier thread was stamped on, and at least 4 hours
\* after the previous thread, however the clock advances between and during
\* calls.
C1_ThreadOnlyWhenEligible ==
    [][ThreadCommits =>
         /\ Weekday(thread_time) < 5
         /\ last_thread_time # DatetimeMin =>
              /\ Date(thread_time) # Date(last_thread_time)
              /\ thread_time - last_thread_time >= 4]_vars

\* C2: a call that finds daily_posts, after the day reset, at or above
\* max_daily_posts returns False at once: it pulls no backlog, invokes no
\* generation and writes nothing to the store.
C2_QuotaExhaustedReturnsAtOnce ==
    (/\ pc # "idle"
     /\ "max_daily_posts" \in DOMAIN config
     /\ call.posts_at_check >= config["max_daily_posts"])
    => /\ pc = "return"
       /\ ret = FALSE
       /\ call.backlog = 0
       /\ call.llm_thread = 0
       /\ call.llm_single = 0
       /\ Added = <<>>

\* a call refused for its quota
C2_Witness ==
    /\ pc = "return"
    /\ "max_daily_posts" \in DOMAIN config
    /\ call.posts_at_check >= config["max_daily_posts"]
    /\ ret = FALSE
    /\ Len(posts) >= config["max_daily_posts"]

\* C3: a call started on the day after the day of last_thread_time sets
\* daily_posts and daily_threads to zero before the quota check and the gate
\* of the thread path read them, and before any collaborator is called.
C3_DayResetBeforeChecks ==
    [][(CallStarts /\ Date(now) = Date(last_thread_time) + 1)
        => /\ call'.posts_at_check = 0
           /\ call'.threads_at_check = 0
           /\ daily_posts' = 0
           /\ daily_threads' = 0
           /\ call'.backlog = 0
           /\ call'.llm_thread = 0
           /\ call'.llm_single = 0
           /\ posts' = posts]_vars

\* a call in flight on the day after a thread, its counters read as zero
C3_Witness ==
    /\ pc \in {"backlog", "single"}
    /\ last_thread_time # DatetimeMin
    /\ Date(now) = Date(last_thread_time) + 1
    /\ call.posts_at_check = 0
    /\ call.threads_at_check = 0

\* C4: a call returns True if and only if it added at least one row to the
\* posts table.
C4_TrueIffCommitted ==
    pc = "return" => (ret <=> Added # <<>>)

\* the rows the call added are the n posts of one thread: positions 1..n in
\* order, one shared timestamp
IsThreadOf(rows, n) ==
    /\ Len(rows) = n
    /\ \A k \in 1 .. Len(rows) :
         /\ rows[k].is_thread
         /\ rows[k].thread_position = k
         /\ rows[k].timestamp = rows[1].timestamp

EligibleAtStart ==
    /\ "max_daily_posts" \in DOMAIN config
    /\ daily_posts' < config["max_daily_posts"]
    /\ daily_threads' = 0
    /\ Weekday(now) < 5
    /\ now - last_thread_time >= 4

C8_FailedThreadFallsBackToSingle ==
    (pc = "return" /\ call.backlog > 0 /\ ~ret) => call.single

-----------------------------------------------------------------------------
(* _post_thread on its own: the store holds what one generate_content call *)
(* left there, a thread or a single post, and the scheduler posts it       *)

\* the posts table after one generate_content call at StartTimes
PubStores ==
    {[k \in 1 .. n |-> Post(t, TRUE, thread_position_of(k - 1), 1)] :
        n \in 1 .. MaxPubPosts, t \in StartTimes}
    \cup {<<Post(t, FALSE, NoPosition, NoCve)>> : t \in StartTimes}

InitPub ==
    /\ start \in StartTimes
    /\ now = start
    /\ config \in Configs
    /\ last_thread_time = DatetimeMin
    /\ daily_posts = 0
    /\ daily_threads = 0
    /\ posts \in {p \in PubStores : p[1].timestamp = start}
    /\ cve_db = <<>>
    /\ pc = "idle"
    /\ ret = FALSE
    /\ draw = 0
    /\ cves = <<>>
    /\ thread_posts = 0
    /\ thread_time = 0
    /\ thread_i = 0
    /\ single_time = 0
    /\ call = NoCall
    /\ calls = 0
    /\ \E test \in BOOLEAN : pub = PubIdle(test)
    /\ post_content = <<>>
    /\ truncated = NotTruncated
    /\ due = DueIdle
    /\ AuxIdle

NextPub ==
    \/ PubStart
    \/ PubSubmit
    \/ PubMark
    \/ PubSleep
    \/ PubDone

SpecPub == InitPub /\ [][NextPub]_vars

\* the rows of the posts table that are marked posted
Posted == {r \in DOMAIN posts : posts[r].posted}

\* C10: when the create_tweet of the k-th of n posts raises a delivery error,
\* _post_thread returns False, has submitted nothing after the k-th post, has
\* marked posts 1..k-1 posted, each with the id its tweet was given, and has
\* left the rows of posts k..n as they were: of a thread not posted before,
\* exactly k-1 rows are posted.
C10_DeliveryErrorAbortsThread ==
    (pub.pc = "return" /\ pub.failed > 0)
    => /\ pub.ret = FALSE
       /\ Len(pub.sent) = pub.failed
       /\ \A j \in 1 .. Len(pub.sent) : pub.sent[j].post = pub.posts[j]
       /\ \A j \in 1 .. Len(pub.posts) :
            IF j < pub.failed
            THEN /\ posts[pub.posts[j]].posted
                 /\ posts[pub.posts[j]].post_id = pub.sent[j].id
                 /\ pub.sent[j].id # NoTweet
            ELSE posts[pub.posts[j]] = pub.before[pub.posts[j]]
       /\ (\A r \in DOMAIN posts : ~pub.before[r].posted)
            => Cardinality(Posted) = pub.failed - 1

\* a thread of three posts whose second create_tweet raised: one row posted
C10_Witness ==
    /\ pub.pc = "return"
    /\ Len(pub.posts) = 3
    /\ pub.failed = 2
    /\ pub.ret = FALSE
    /\ Cardinality(Posted) = 1
    /\ posts[pub.posts[1]].posted

\* C11: in every call of _post_thread the first tweet is sent with no reply
\* target, and the tweet of every later post is sent in reply to exactly the
\* id that create_tweet returned for the post before it, so the tweets of a
\* call form one chain.
C11_LinearReplyChain ==
    \A j \in 1 .. Len(pub.sent) :
        /\ pub.sent[j].post = pub.posts[j]
        /\ IF j = 1
           THEN pub.sent[j].in_reply_to = NoTweet
           ELSE /\ pub.sent[j - 1].id # NoTweet
                /\ pub.sent[j].in_reply_to = pub.sent[j - 1].id

\* a thread of three posts, all sent: the third replies to the second, the
\* second to the first
C11_Witness ==
    /\ pub.pc = "return"
    /\ pub.ret = TRUE
    /\ Len(pub.sent) = 3
    /\ pub.sent[1].in_reply_to = NoTweet
    /\ pub.sent[2].in_reply_to = pub.sent[1].id
    /\ pub.sent[3].in_reply_to = pub.sent[2].id
    /\ pub.sent[3].in_reply_to # pub.sent[1].id

-----------------------------------------------------------------------------
(* _truncate_if_needed on its own: the content of a post is truncated *)

\* the earliest of the StartTimes
FirstStart == CHOOSE t \in StartTimes : \A u \in StartTimes : t <= u

\* the configuration with no key missing
FullConfig == CHOOSE c \in Configs : DOMAIN c = {"max_daily_posts", "max_thread_length"}

\* the generator and _post_thread idle, and a post content to truncate
InitTrunc ==
    /\ start = FirstStart
    /\ now = start
    /\ config = FullConfig
    /\ last_thread_time = DatetimeMin
    /\ daily_posts = 0
    /\ daily_threads = 0
    /\ posts = <<>>
    /\ cve_db = <<>>
    /\ pc = "idle"
    /\ ret = FALSE
    /\ draw = 0
    /\ cves = <<>>
    /\ thread_posts = 0
    /\ thread_time = 0
    /\ thread_i = 0
    /\ single_time = 0
    /\ call = NoCall
    /\ calls = 0
    /\ pub = PubIdle(FALSE)
    /\ post_content \in Contents
    /\ truncated = NotTruncated
    /\ due = DueIdle
    /\ AuxIdle

NextTrunc == TruncateContent

SpecTrunc == InitTrunc /\ [][NextTrunc]_vars

\* _truncate_if_needed has returned
Truncated == truncated # NotTruncated

\* the text has as many "(" as ")"
Balanced(s) == count(s, "(") = count(s, ")")

\* C17: a content of at most 280 characters, 280 included, comes back from
\* _truncate_if_needed unchanged.
C17_ShortContentUnchanged ==
    (Truncated /\ Len(post_content) <= 280) => truncated = post_content

\* a content of exactly 280 characters with an unclosed parenthesis, returned
\* as it is
C17_Witness ==
    /\ Truncated
    /\ Len(post_content) = 280
    /\ ~Balanced(post_content)
    /\ truncated = post_content

\* C18: whatever the content, and whichever branch of the parenthesis repair
\* is taken, the text _truncate_if_needed returns, which is the text
\* _post_thread submits, has at most 280 characters.
C18_AtMostLimit ==
    Truncated => Len(truncated) <= 280

\* a content over the limit cut before its dangling parenthesis
C18_Witness ==
    /\ Truncated
    /\ Len(post_content) > 280
    /\ truncated = strip(Take(post_content, rfind(Take(post_content, 277), "(")))
    /\ Len(truncated) >= 276

\* the first 277 characters of the content
Kept == Take(post_content, 277)

\* C19 as stated: the text returned for a content of more than 280 characters
\* has as many "(" as ")".
C19_TruncatedBalanced ==
    (Truncated /\ Len(post_content) > 280) => Balanced(truncated)

\* C19 amended: the text returned for a content of more than 280 characters
\* has as many "(" as ")" exactly when the first 277 characters of the content
\* are balanced, or hold one more "(" than ")" with their last "(" after
\* their last ")"; any other imbalance is returned as it is.
C19_BalancedIffOneDangling ==
    (Truncated /\ Len(post_content) > 280)
    => (Balanced(truncated)
        <=> \/ Balanced(Kept)
            \/ /\ count(Kept, "(") = count(Kept, ")") + 1
               /\ rfind(Kept, "(") > rfind(Kept, ")"))

\* a content with a complete explanation and a dangling one: the text is cut
\* before the dangling one and comes back balanced
C19_Witness ==
    /\ Truncated
    /\ Len(post_content) > 280
    /\ ~Balanced(Kept)
    /\ count(truncated, "(") = 1
    /\ count(truncated, ")") = 1
    /\ Len(truncated) < 277

\* the content is over the limit and its only parentheses are one "(" past
\* character 277 and one ")" after it
OneExplanationPastCut ==
    /\ Len(post_content) > 280
    /\ count(post_content, "(") = 1
    /\ count(post_content, ")") = 1
    /\ rfind(post_content, "(") >= 277
    /\ rfind(post_content, ")") > rfind(post_content, "(")

\* the content up to its "(", trailing whitespace trimmed
BeforeExplanation == strip(Take(post_content, rfind(post_content, "(")))

\* C20 as stated: such a content comes back cut before its "(" and trimmed,
\* and as its first 277 characters and the ellipsis only if that cut is still
\* over the limit.
C20_CutBeforeExplanation ==
    (Truncated /\ OneExplanationPastCut)
    => truncated = IF Len(BeforeExplanation) > 280
                   THEN Take(BeforeExplanation, 277) \o <<".", ".", ".">>
                   ELSE BeforeExplanation

\* C20 amended: such a content comes back as its first 277 characters and the
\* ellipsis, like a content with no parenthesis at all: where its "(" stands
\* past character 277 makes no difference.
C20_EllipsisAfter277 ==
    (Truncated /\ OneExplanationPastCut)
    => truncated = Kept \o <<".", ".", ".">>

\* a content of 300 characters with "(" as its 279th, cut after its 277th
C20_Witness ==
    /\ Truncated
    /\ OneExplanationPastCut
    /\ Len(post_content) = 300
    /\ rfind(post_content, "(") = 278
    /\ Len(truncated) = 280
    /\ truncated[280] = "."

-----------------------------------------------------------------------------
(* The two operations of the scheduler on one store: _get_next_post and    *)
(* _post_thread, called one at a time on what one generate_content call    *)
(* left in the posts table, within the hour the rows were stamped in       *)

InitSched ==
    /\ start = FirstStart
    /\ now = start
    /\ config = FullConfig
    /\ last_thread_time = DatetimeMin
    /\ daily_posts = 0
    /\ daily_threads = 0
    /\ posts \in {p \in PubStores : p[1].timestamp = start}
    /\ cve_db = <<>>
    /\ pc = "idle"
    /\ ret = FALSE
    /\ draw = 0
    /\ cves = <<>>
    /\ thread_posts = 0
    /\ thread_time = 0
    /\ thread_i = 0
    /\ single_time = 0
    /\ call = NoCall
    /\ calls = 0
    /\ \E test \in BOOLEAN : pub = PubIdle(test)
    /\ post_content = <<>>
    /\ truncated = NotTruncated
    /\ due = DueIdle
    /\ AuxIdle

NextSched ==
    \/ DueStart
    \/ DueQuery
    \/ DueDone
    \/ (due.pc = "idle" /\ PubStart)
    \/ PubSubmit
    \/ PubMark
    \/ PubSleep
    \/ PubDone

SpecSched == InitSched /\ [][NextSched]_vars

-----------------------------------------------------------------------------
(* _get_next_post beside the generator: generate_content is called, the    *)
(* clock advances, and _get_next_post is called, each at its own pace      *)

InitDue ==
    /\ start = FirstStart
    /\ now = start
    /\ config = FullConfig
    /\ last_thread_time = DatetimeMin
    /\ daily_posts = 0
    /\ daily_threads = 0
    /\ posts = <<>>
    /\ cve_db \in {b \in Backlogs : Len(b) = MaxCves}
    /\ pc = "idle"
    /\ ret = FALSE
    /\ draw = 0
    /\ cves = <<>>
    /\ thread_posts = 0
    /\ thread_time = 0
    /\ thread_i = 0
    /\ single_time = 0
    /\ call = NoCall
    /\ calls = 0
    /\ pub = PubIdle(FALSE)
    /\ post_content = <<>>
    /\ truncated = NotTruncated
    /\ due = DueIdle
    /\ AuxIdle

NextDue ==
    \/ GenStart
    \/ ProcessBacklog
    \/ TryCandidate
    \/ CreateThread
    \/ StoreThreadPost
    \/ GenerateSinglePost
    \/ StoreSinglePost
    \/ GenReturn
    \/ Tick
    \/ DueStart
    \/ DueQuery
    \/ DueDone

SpecDue == InitDue /\ [][NextDue]_vars

-----------------------------------------------------------------------------
(* Properties of _get_next_post *)

\* _get_next_post has returned a list
DueReturned == due.pc = "return" /\ due.returned # <<>>

\* the rows the store returned that have a position
Positioned == {r \in Range(due.returned) : posts[r].thread_position # NoPosition}

\* C12: when the first row the store returns is of a thread, _get_next_post
\* returns the rows that have a position, each once, by ascending position,
\* whatever order the store returned them in; and _post_thread submits the
\* posts of the list it is given in the order of the list, so that the tweets
\* of a thread are sent by ascending position.
C12_PositionOrderKept ==
    /\ (DueReturned /\ posts[due.returned[1]].is_thread)
       => /\ Range(due.result) = Positioned
          /\ Len(due.result) = Cardinality(Positioned)
          /\ \A j \in 1 .. Len(due.result) - 1 :
               posts[due.result[j]].thread_position
                 < posts[due.result[j + 1]].thread_position
    /\ \A j \in 1 .. Len(pub.sent) :
          /\ pub.sent[j].post = pub.posts[j]
          /\ j > 1 => posts[pub.sent[j - 1].post].thread_position
                        < posts[pub.sent[j].post].thread_position

\* a thread the store returned as positions 2, 1, 3 and _get_next_post
\* returned as 1, 2, 3
C12_Witness ==
    /\ DueReturned
    /\ Len(due.returned) = 3
    /\ posts[due.returned[1]].thread_position = 2
    /\ posts[due.returned[2]].thread_position = 1
    /\ posts[due.returned[3]].thread_position = 3
    /\ Len(due.result) = 3
    /\ \A j \in 1 .. 3 : posts[due.result[j]].thread_position = j

\* C13: when the first row the store returns is of a thread, the list
\* _get_next_post returns holds exactly the rows with that row's timestamp
\* and a position, and no row of another thread and no single post; when it
\* is not of a thread, the list is that row alone.
C13_OneThreadOrOnePost ==
    DueReturned
    => LET first == due.returned[1]
           thread == {r \in Positioned :
                        posts[r].timestamp = posts[first].timestamp}
       IN IF posts[first].is_thread
          THEN /\ Range(due.result) = thread
               /\ Len(due.result) = Cardinality(thread)
          ELSE due.result = <<first>>

\* C14: every row _get_next_post returns has a scheduled_time, and it lies
\* within [now, now + 4h] of the time the call read.
C14_ScheduledWithinLookahead ==
    due.pc = "return"
    => \A j \in 1 .. Len(due.result) :
         LET t == scheduled_time(posts[due.result[j]])
         IN /\ t # NoTime
            /\ due.now <= t
            /\ t <= due.now + 4

\* C15: whenever _get_next_post selects an item while another unposted row is
\* in its lookahead window, the selected item has a scheduled_time and no such
\* row has an earlier one.
C15_EarliestScheduledFirst ==
    (due.pc = "return" /\ due.result # <<>>)
    => \A other \in Range(due.returned) \ Range(due.result) :
         ~posts[other].posted
         => LET t == scheduled_time(posts[due.result[1]])
            IN /\ t # NoTime
               /\ scheduled_time(posts[other]) # NoTime
               /\ t <= scheduled_time(posts[other])

-----------------------------------------------------------------------------
(* _is_interesting_cve on its own: one record of NVDClient is classified *)

\* every part of the bot at rest but the collector and the scheduler's loop
AtRest ==
    /\ start = FirstStart
    /\ now = start
    /\ config = FullConfig
    /\ last_thread_time = DatetimeMin
    /\ daily_posts = 0
    /\ daily_threads = 0
    /\ posts = <<>>
    /\ cve_db = <<>>
    /\ pc = "idle"
    /\ ret = FALSE
    /\ draw = 0
    /\ cves = <<>>
    /\ thread_posts = 0
    /\ thread_time = 0
    /\ thread_i = 0
    /\ single_time = 0
    /\ call = NoCall
    /\ calls = 0
    /\ pub = PubIdle(FALSE)
    /\ post_content = <<>>
    /\ truncated = NotTruncated
    /\ due = DueIdle

\* a record of NVDClient to classify
InitClassify ==
    /\ AtRest
    /\ cve_data \in CveRecords
    /\ classified = NotClassified
    /\ posting_windows = <<>>
    /\ utc_time = 0
    /\ in_window = NotChecked
    /\ run = RunIdle

NextClassify == Classify

SpecClassify == InitClassify /\ [][NextClassify]_vars

\* _is_interesting_cve has returned its pair
Classified == Len(classified) = 2

\* how often a reason is among the reasons returned
Times(reason) ==
    Cardinality({k \in DOMAIN classified[2] : classified[2][k] = reason})

\* a term of the category occurs in the lower-cased description
Occurs(terms) ==
    \E k \in DOMAIN terms :
        contains(lower(get(cve_data, "description", "")), terms[k])

\* C21: the reasons hold the reason of a keyword category exactly once if a
\* term of the category occurs in the lower-cased description and not at all
\* otherwise, each category on its own, and the record is interesting if and
\* only if the reasons, those of the severity included, are not empty.
C21_KeywordCategoriesAdditive ==
    classified # NotClassified =>
        /\ Classified
        /\ Times("high impact") = (IF Occurs(high_impact) THEN 1 ELSE 0)
        /\ Times("clever method") = (IF Occurs(clever_methods) THEN 1 ELSE 0)
        /\ Times("notable discovery") = (IF Occurs(notable) THEN 1 ELSE 0)
        /\ classified[1] <=> classified[2] # <<>>

\* a description with two terms of the high-impact category and one of the
\* clever-method category, in capitals, and no score: both reasons, once each
C21_Witness ==
    /\ Classified
    /\ DOMAIN cve_data = {"description"}
    /\ contains(cve_data.description, "Critical flaw with code execution")
    /\ contains(cve_data.description, "Race Condition")
    /\ classified = <<TRUE, <<"high impact", "clever method">>>>

\* the scores that are numbers, with their value in tenths
NumericScores ==
    {<<[number |-> v], v>> : v \in 0 .. 100}
    \cup {<<[text |-> "9.0"], 90>>, <<[text |-> "7.4"], 74>>,
          <<[text |-> "10.0"], 100>>}

\* the severity reasons among the reasons returned
SeverityReasons ==
    {k \in DOMAIN classified[2] :
        classified[2][k] \in {"critical severity", "high severity"}}

\* C22: a numeric score of 9.0 or more adds "critical severity" and nothing
\* else of the severity, one of 7.5 or more and less than 9.0 adds "high
\* severity" and nothing else, one below 7.5 adds nothing; a score that is
\* absent, None or not a number adds nothing, and no exception leaves the
\* function.
C22_OneSeverityReason ==
    classified # NotClassified =>
        /\ Classified
        /\ IF "cvss_score" \in DOMAIN cve_data
              /\ \E s \in NumericScores : s[1] = cve_data.cvss_score
           THEN LET v == (CHOOSE s \in NumericScores :
                             s[1] = cve_data.cvss_score)[2]
                IN /\ Times("critical severity") = (IF v >= 90 THEN 1 ELSE 0)
                   /\ Times("high severity") =
                          (IF v >= 75 /\ v < 90 THEN 1 ELSE 0)
                   /\ Cardinality(SeverityReasons) <= 1
           ELSE SeverityReasons = {}

\* a record with the score 9.0 and no term of any category: interesting for
\* its critical severity alone; and the same holds of the text "9.0"
C22_Witness ==
    /\ Classified
    /\ "cvss_score" \in DOMAIN cve_data
    /\ cve_data.cvss_score = [number |-> 90]
    /\ classified = <<TRUE, <<"critical severity">>>>

-----------------------------------------------------------------------------
(* _in_posting_window on its own: the scheduler is constructed with the    *)
(* windows of its configuration and asks whether the time of day is in one *)

\* PostScheduler.__init__ has parsed the windows, the clock shows a time of day
InitWindow ==
    /\ AtRest
    /\ cve_data = [k \in {} |-> ""]
    /\ classified = NotClassified
    /\ \E time_windows \in TimeWindowsOf(MaxWindows) :
          posting_windows = parse_windows(time_windows)
    /\ utc_time \in TimesOfDay
    /\ in_window = NotChecked
    /\ run = RunIdle

NextWindow == CheckWindow

SpecWindow == InitWindow /\ [][NextWindow]_vars

\* C23: _in_posting_window answers True if and only if the time of day is
\* at or after the start and at or before the end of one of the windows.
C23_InWindowIffInclusive ==
    in_window # NotChecked =>
        (in_window[1] <=>
            \E k \in DOMAIN posting_windows :
                /\ posting_windows[k][1] <= utc_time
                /\ utc_time <= posting_windows[k][2])

\* the window 09:00-17:30 asked at 17:30:00 sharp, its end: True
C23_Witness ==
    /\ posting_windows = <<<<9 * 3600, 17 * 3600 + 30 * 60>>>>
    /\ utc_time = 17 * 3600 + 30 * 60
    /\ in_window = <<TRUE>>

-----------------------------------------------------------------------------
(* PostScheduler.run on a store that holds what one generate_content call   *)
(* left there, or nothing, while the clock advances                        *)

\* the posts table run finds: empty, or one of the PubStores stamped at the
\* start
RunStores == {<<>>} \cup {p \in PubStores : p[1].timestamp = FirstStart}

InitRun ==
    /\ start = FirstStart
    /\ now = start
    /\ config = FullConfig
    /\ last_thread_time = DatetimeMin
    /\ daily_posts = 0
    /\ daily_threads = 0
    /\ posts \in RunStores
    /\ cve_db = <<>>
    /\ pc = "idle"
    /\ ret = FALSE
    /\ draw = 0
    /\ cves = <<>>
    /\ thread_posts = 0
    /\ thread_time = 0
    /\ thread_i = 0
    /\ single_time = 0
    /\ call = NoCall
    /\ calls = 0
    /\ pub = PubIdle(FALSE)
    /\ post_content = <<>>
    /\ truncated = NotTruncated
    /\ due = DueIdle
    /\ cve_data = [k \in {} |-> ""]
    /\ classified = NotClassified
    /\ \E time_windows \in TimeWindowsOf(1) :
          posting_windows = parse_windows(time_windows)
    /\ utc_time = 0
    /\ in_window = NotChecked
    /\ run = RunIdle

NextRun ==
    \/ RunStart
    \/ RunIterate
    \/ RunNextPost
    \/ RunWake
    \/ Tick

SpecRun == InitRun /\ [][NextRun]_vars

\* the sleeps of the loop end and the loop goes on when they do
SpecRunLive == SpecRun /\ WF_vars(RunWake) /\ WF_vars(RunIterate)

\* C24: the loop of run never ends; an exception raised in an iteration is
\* caught and followed by the sleep of 300 seconds, and after it the next
\* iteration starts.
C24_LoopSurvivesErrors ==
    /\ [](run.pc # "ended")
    /\ [][(run.pc = "query" /\ run'.raised # "")
              => (run'.pc = "sleep" /\ run'.delay = 300)]_vars
    /\ (run.raised # "") ~> (run.pc \in {"query", "sleep"} /\ run.raised = "")

\* the iteration after one whose TypeError was caught has started
C24_Witness ==
    /\ run.pc = "top"
    /\ run.raised = "TypeError"
    /\ run.delay = 0

-----------------------------------------------------------------------------
(* Bot.run: the task of _content_generation_loop beside PostScheduler.run, *)
(* on one store and one clock, with one disclosure in the backlog          *)

\* the time_windows of the posting configuration of the bot: the evening
BotWindows == <<[start |-> "17:30", end |-> "23:59"]>>

InitBot ==
    /\ start = FirstStart
    /\ now = start
    /\ config = FullConfig
    /\ last_thread_time = DatetimeMin
    /\ daily_posts = 0
    /\ daily_threads = 0
    /\ posts = <<>>
    /\ cve_db = <<FALSE>>
    /\ pc = "idle"
    /\ ret = FALSE
    /\ draw = 0
    /\ cves = <<>>
    /\ thread_posts = 0
    /\ thread_time = 0
    /\ thread_i = 0
    /\ single_time = 0
    /\ call = NoCall
    /\ calls = 0
    /\ pub = PubIdle(FALSE)
    /\ post_content = <<>>
    /\ truncated = NotTruncated
    /\ due = DueIdle
    /\ cve_data = [k \in {} |-> ""]
    /\ classified = NotClassified
    /\ posting_windows = parse_windows(BotWindows)
    /\ utc_time = 0
    /\ in_window = NotChecked
    /\ run = RunIdle

NextBot ==
    \/ GenStart
    \/ ProcessBacklog
    \/ TryCandidate
    \/ CreateThread
    \/ StoreThreadPost
    \/ GenerateSinglePost
    \/ StoreSinglePost
    \/ GenReturn
    \/ Tick
    \/ RunStart
    \/ RunIterate
    \/ RunNextPost
    \/ RunWake

SpecBot == InitBot /\ [][NextBot]_vars

-----------------------------------------------------------------------------
(* generate_content on a backlog of one row more than the limit of          *)
(* process_backlog, configured for threads of one post                     *)

InitBacklog ==
    /\ start = FirstStart
    /\ now = start
    /\ config = [max_daily_posts |-> MaxDailyPosts, max_thread_length |-> 1]
    /\ last_thread_time = DatetimeMin
    /\ daily_posts = 0
    /\ daily_threads = 0
    /\ posts = <<>>
    /\ cve_db = [c \in 1 .. BacklogLimit + 1 |-> FALSE]
    /\ pc = "idle"
    /\ ret = FALSE
    /\ draw = 0
    /\ cves = <<>>
    /\ thread_posts = 0
    /\ thread_time = 0
    /\ thread_i = 0
    /\ single_time = 0
    /\ call = NoCall
    /\ calls = 0
    /\ pub = PubIdle(FALSE)
    /\ post_content = <<>>
    /\ truncated = NotTruncated
    /\ due = DueIdle
    /\ AuxIdle

NextBacklog ==
    \/ GenStart
    \/ ProcessBacklog
    \/ TryCandidate
    \/ CreateThread
    \/ StoreThreadPost
    \/ GenerateSinglePost
    \/ StoreSinglePost
    \/ GenReturn

SpecBacklog == InitBacklog /\ [][NextBacklog]_vars

-----------------------------------------------------------------------------
(* Properties of the posts table and of the cadence state under the        *)
(* generator                                                               *)

\* two rows of one thread: _store_thread gives its rows one thread_time and
\* one cve_id.  The clock counts hours, so the threads of two candidates of
\* one hour have the same timestamp; their cve_id tells them apart.
SameThread(r, q) ==
    /\ posts[r].is_thread
    /\ posts[q].is_thread
    /\ posts[r].timestamp = posts[q].timestamp
    /\ posts[r].cve_id = posts[q].cve_id

\* C25: every row of a thread has a position, no two rows of one thread have
\* the same position, and a row that is not of a thread has no position.
C25_ThreadRowsPositioned ==
    /\ \A r \in DOMAIN posts :
          posts[r].is_thread <=> posts[r].thread_position # NoPosition
    /\ \A r \in DOMAIN posts, q \in DOMAIN posts :
          (r # q /\ SameThread(r, q))
              => posts[r].thread_position # posts[q].thread_position

\* a thread of two posts, at positions 1 and 2, beside the first post of
\* another candidate's thread, whose second post the store refused
C25_Witness ==
    \E r \in DOMAIN posts, q \in DOMAIN posts, u \in DOMAIN posts :
        /\ SameThread(r, q)
        /\ posts[r].thread_position = 1
        /\ posts[q].thread_position = 2
        /\ posts[u].is_thread
        /\ posts[u].cve_id # posts[r].cve_id
        /\ posts[u].thread_position = 1

\* the cadence state of the generator
CadenceState == <<last_thread_time, daily_posts, daily_threads>>

\* C26: a generate_content call starts only when no call is in flight, and
\* the cadence state changes only in a step of the call in flight, whatever
\* the scheduler's loop does meanwhile.
C26_OnePassAtATime ==
    [][/\ calls' # calls => (pc = "idle" /\ calls' = calls + 1)
       /\ CadenceState' # CadenceState => (pc # "idle" \/ calls' # calls)
       /\ (pc # "idle" /\ pc' # "idle") => calls' = calls]_vars

\* the second call is storing its thread while the scheduler's loop awaits
\* the store
C26_Witness ==
    /\ calls = 2
    /\ pc = "store"
    /\ run.pc = "query"

\* a pair (is_valid, posts) that _create_cve_thread lets through
Acceptable(is_valid, n) ==
    /\ is_valid
    /\ n >= 1
    /\ "max_thread_length" \in DOMAIN config
    /\ n <= config["max_thread_length"]

\* C27: a row of a thread is added only for a candidate whose generated
\* thread is valid, has a post and has at most max_thread_length posts; a
\* candidate whose thread is not so adds no row, leaves the cadence state as
\* it is, and the loop goes on to the next candidate, or ends after the last.
C27_OnlyAcceptableThreadPersisted ==
    [][/\ (pc = "store" /\ posts' # posts)
            => Acceptable(call.is_valid, call.generated)
       /\ (pc = "create" /\ call'.llm_thread # call.llm_thread
             /\ ~call'.raised
             /\ ~Acceptable(call'.is_valid, call'.generated))
            => /\ posts' = posts
               /\ CadenceState' = CadenceState
               /\ cves' = Tail(cves)
               /\ pc' = (IF Tail(cves) = <<>> THEN "return" ELSE "candidate")]_vars

\* the first candidate's thread was valid and too long: nothing is stored and
\* the second candidate is being tried
C27_Witness ==
    /\ pc = "create"
    /\ call.llm_thread = 1
    /\ call.is_valid
    /\ "max_thread_length" \in DOMAIN config
    /\ call.generated > config["max_thread_length"]
    /\ call.pulled = 2
    /\ Len(cves) = 1
    /\ Added = <<>>

\* C28: the cadence state changes in three ways only.  When the last post
\* of a thread of n posts is stored, daily_threads grows by 1, daily_posts by
\* n, and last_thread_time becomes the timestamp of the thread; when a single
\* post is stored, daily_posts grows by 1 and nothing else changes; and the
\* day reset at the start of a call sets the two counters to 0.
C28_CadenceFrame ==
    [][CadenceState' # CadenceState =>
          \/ /\ pc = "store"
             /\ Len(posts') = Len(posts) + 1
             /\ LET last == posts'[Len(posts')]
                    n == Cardinality({q \in DOMAIN posts' :
                                         /\ posts'[q].is_thread
                                         /\ posts'[q].timestamp = last.timestamp
                                         /\ posts'[q].cve_id = last.cve_id})
                IN /\ last.is_thread
                   /\ last.thread_position = n
                   /\ daily_threads' = daily_threads + 1
                   /\ daily_posts' = daily_posts + n
                   /\ last_thread_time' = last.timestamp
          \/ /\ pc = "single_store"
             /\ Len(posts') = Len(posts) + 1
             /\ ~posts'[Len(posts')].is_thread
             /\ daily_posts' = daily_posts + 1
             /\ UNCHANGED <<daily_threads, last_thread_time>>
          \/ /\ pc = "idle"
             /\ calls' = calls + 1
             /\ Date(now) > Date(last_thread_time)
             /\ daily_posts' = 0
             /\ daily_threads' = 0
             /\ UNCHANGED last_thread_time]_vars

\* a thread of two posts has been committed: two posts and one thread counted
C28_Witness ==
    /\ pc = "return"
    /\ ret
    /\ Len(Added) = 2
    /\ Added[2].is_thread
    /\ Added[2].thread_position = 2
    /\ daily_posts = call.posts_at_check + 2
    /\ daily_threads = call.threads_at_check + 1
    /\ last_thread_time = Added[2].timestamp

\* C29: whatever happens to one candidate in _create_cve_thread or in
\* _store_thread, an exception included, the call stays with the candidate,
\* stores its thread, or goes on to the next candidate; it returns from there
\* only after the last candidate or with a thread committed.
C29_CandidateFailureKeepsLoop ==
    [][(pc = "create" \/ pc = "store") =>
          (\/ pc' = pc
           \/ pc' = "store"
           \/ (pc' = "candidate" /\ cves' = Tail(cves) /\ cves' # <<>>)
           \/ (pc' = "return" /\ ~ret' /\ Tail(cves) = <<>>)
           \/ (pc' = "return" /\ ret' /\ pc = "store" /\ posts' # posts))]_vars

\* the store refused the second post of the first candidate's thread, and
\* the thread of the second candidate is being created
C29_Witness ==
    /\ pc = "create"
    /\ call.raised
    /\ call.pulled = 2
    /\ Len(cves) = 1
    /\ Len(Added) = 1
    /\ call.llm_thread = 1

\* the candidates the loop of _generate_cve_thread has taken up so far
TakenUp ==
    call.pulled - Len(cves)
    + (IF pc \in {"store", "return"} /\ cves # <<>> THEN 1 ELSE 0)

\* C30: a call asks process_backlog once and gets at most 5 candidates,
\* calls the thread generation at most once for each candidate it takes up,
\* commits at most one thread, after which it returns, and calls the
\* single-post generation at most once.
C30_NothingRetried ==
    pc # "idle" =>
        /\ call.backlog <= 1
        /\ call.pulled <= 5
        /\ call.llm_thread <= TakenUp
        /\ call.llm_single <= 1
        /\ daily_threads <= call.threads_at_check + 1
        /\ daily_threads = call.threads_at_check + 1 => (pc = "return" /\ ret)

\* six rows were unprocessed, five candidates were pulled, the generation
\* was called once for each, none gave a thread, and the call returns False
C30_Witness ==
    /\ pc = "return"
    /\ ~ret
    /\ call.unprocessed = 6
    /\ call.pulled = 5
    /\ call.llm_thread = 5
    /\ call.llm_single = 0

\* C31: when the single-post generation gives an invalid post or an empty
\* content, or raises, the call returns False from there, no row is added and
\* the cadence state stays as it is; and a single post is stored only for a
\* valid post with content.
C31_FailedSinglePostChangesNothing ==
    [][/\ (pc = "single" /\ pc' # pc
             /\ ~(call'.post_is_valid /\ call'.post_has_content))
            => /\ pc' = "return"
               /\ ~ret'
               /\ posts' = posts
               /\ CadenceState' = CadenceState
       /\ (pc = "single_store" /\ posts' # posts)
            => (call.post_is_valid /\ call.post_has_content)]_vars

\* the generation gave a valid post with an empty content: the call returns
\* False with nothing stored and nothing counted
C31_Witness ==
    /\ pc = "return"
    /\ ~ret
    /\ call.single
    /\ call.llm_single = 1
    /\ call.post_is_valid
    /\ ~call.post_has_content
    /\ ~call.raised
    /\ Added = <<>>
    /\ daily_posts = call.posts_at_check

-----------------------------------------------------------------------------
(* Properties of PostScheduler.run beside the generator *)

\* the time of day of the clock lies in a posting window
InWindowNow ==
    \E k \in DOMAIN posting_windows :
        /\ posting_windows[k][1] <= time_of(now)
        /\ time_of(now) <= posting_windows[k][2]

HasThreadRow(c) == \E r \in DOMAIN posts : posts[r].is_thread /\ posts[r].cve_id = c

\* C33: when a generate_content call has returned, every row of the cves
\* table that is marked processed has a thread row in the posts table: a CVE the
\* pass pulled without committing a thread for it is still unprocessed.
C33_ProcessedOnlyWhenConsumed ==
    pc = "return" => \A c \in DOMAIN cve_db : cve_db[c] => HasThreadRow(c)

\* the tasks of the event loop are scheduled fairly: the scheduler's loop
\* starts, every await of it returns and every sleep of it ends
SpecRunFair ==
    /\ SpecRun
    /\ WF_vars(RunStart)
    /\ WF_vars(RunIterate)
    /\ WF_vars(RunNextPost)
    /\ WF_vars(RunWake)

\* the query of the iteration in flight has rows of the posts table in its
\* lookahead
RowsInLookahead == rows_in_timeframe(run.now, run.now + LookaheadHours) # {}

\* the store failed in the query of the iteration: the loop sleeps with rows
\* in the lookahead and no exception caught by run
StoreFailed == run.pc = "sleep" /\ run.raised = "" /\ RowsInLookahead

\* C34: a row of the posts table that a query of _get_next_post has in its
\* lookahead is in the end handed to _post_thread by the loop of run, unless
\* the store fails.
C34_DuePostIsSubmitted ==
    (run.pc = "query" /\ RowsInLookahead) ~> (run.pc = "post" \/ StoreFailed)

\* the rows of the posts table stamped on the UTC day d
RowsOfDay(d) == {r \in DOMAIN posts : Date(posts[r].timestamp) = d}

\* C35: the posts table never holds more than max_daily_posts rows stamped
\* on one UTC day, whatever calls of generate_content wrote them.
C35_DailyQuotaHolds ==
    "max_daily_posts" \in DOMAIN config
        => \A r \in DOMAIN posts :
               Cardinality(RowsOfDay(Date(posts[r].timestamp)))
                   <= config["max_daily_posts"]

\* C36: a generate_content call that has returned False has left no row of
\* a thread in the posts table: a thread whose writes failed partway is not
\* in the store.
C36_ThreadAllOrNothing ==
    (pc = "return" /\ ~ret) => \A k \in DOMAIN Added : ~Added[k].is_thread

\* row r is of the thread _store_thread is writing
OfThreadInFlight(r) ==
    /\ pc = "store"
    /\ posts[r].is_thread
    /\ posts[r].timestamp = thread_time
    /\ posts[r].cve_id = Head(cves)

\* C37: the list _get_next_post returns holds no row of a thread that
\* _store_thread has not written to its end.
C37_NoPartialThreadSelected ==
    due.pc = "return" => \A j \in DOMAIN due.result : ~OfThreadInFlight(due.result[j])

-----------------------------------------------------------------------------
(* Properties of _post_thread in test mode and of _truncate_if_needed *)

\* C39: in test mode _post_thread makes no create_tweet call, marks no row
\* posted, leaves the posts table as it found it and returns True.
C39_TestModePublishesNothing ==
    pub.is_test_mode
        => /\ pub.sent = <<>>
           /\ pub.tweets = 0
           /\ pub.pc \in {"idle", "return"}
           /\ pub.pc = "return" => (pub.ret /\ posts = pub.before)
           /\ \A r \in DOMAIN posts : ~posts[r].posted /\ posts[r].post_id = NoPostId

\* the second call in test mode has returned True for a thread of two posts
C39_Witness ==
    /\ pub.is_test_mode
    /\ pub.pc = "return"
    /\ pub.ret
    /\ pub.calls = 2
    /\ Len(pub.posts) >= 2
    /\ \A r \in DOMAIN posts : ~posts[r].posted

\* s is the first k characters of the content, for some k of at least 1,
\* with or without "..." after them
PrefixOfContent(s) ==
    \E k \in 1 .. Len(post_content) :
        \/ s = Take(post_content, k)
        \/ s = Take(post_content, k) \o Ellipsis

\* C40: what _truncate_if_needed returns for a content that is not empty is
\* not empty and is a prefix of the content, with or without "..." after it.
C40_TruncatedIsNonEmptyPrefix ==
    (truncated # NotTruncated /\ post_content # <<>>)
        => (truncated # <<>> /\ PrefixOfContent(truncated))

=============================================================================
